---- MODULE Spec2Model ----
(***************************************************************************)
(* A model of data_sample.py: load_data, clean_data,                       *)
(* write_data_dictionary and main.                                         *)
(*                                                                         *)
(* A DataFrame is a record [columns, dtypes, rows]: the column names, the  *)
(* dtype of each column and the rows, each row a sequence of cells.        *)
(* Text is a sequence of one-character strings, so that strip, lower,      *)
(* title, the date parser and the numeric parser work on characters.       *)
(* Numbers are fixed-point integers with Scale units per 1 (four decimal   *)
(* digits, the precision of the sample's coordinates).                     *)
(*                                                                         *)
(* The script imports pandas without pinning a version.  Two of the calls  *)
(* it makes behave differently across the pandas releases in use:          *)
(*   Series.astype(str): pandas 2 applies str() to every element, missing  *)
(*     values included (NaN becomes the text "nan"); pandas 3 converts to  *)
(*     the str dtype and keeps missing values missing;                     *)
(*   dtype names: object / datetime64[ns] in pandas 2, str /               *)
(*     datetime64[us] in pandas 3.                                         *)
(* pandas_major is the installed major version, chosen in Init.            *)
(***************************************************************************)
EXTENDS Integers, Sequences, FiniteSets, TLC

VARIABLES pandas_major, raw_file, pc, error, df_raw, df_clean,
          clean_file, doc_file, stdout

vars == <<pandas_major, raw_file, pc, error, df_raw, df_clean,
          clean_file, doc_file, stdout>>

(* ------------------------------ bounds -------------------------------- *)

\* The largest number of rows of a raw_data.csv the model reads.
MaxRows == 3

PandasBuilds == {2, 3}

(* --------------------------- characters ------------------------------- *)

\* a function on 1..n as the tuple of its values
AsTuple(f) == f \o <<>>

UpperChars == <<"A","B","C","D","E","F","G","H","I","J","K","L","M",
                "N","O","P","Q","R","S","T","U","V","W","X","Y","Z">>

LowerChars == <<"a","b","c","d","e","f","g","h","i","j","k","l","m",
                "n","o","p","q","r","s","t","u","v","w","x","y","z">>

DigitChars == <<"0","1","2","3","4","5","6","7","8","9">>

IsUpper(c) == \E i \in DOMAIN UpperChars : UpperChars[i] = c

IsLower(c) == \E i \in DOMAIN LowerChars : LowerChars[i] = c

IsCased(c) == IsUpper(c) \/ IsLower(c)

IsSpace(c) == c \in {" ", "\t", "\n"}

IsDigit(c) == \E i \in DOMAIN DigitChars : DigitChars[i] = c

DigitVal(c) == (CHOOSE i \in DOMAIN DigitChars : DigitChars[i] = c) - 1

\* str.lower() on one character
LowerChar(c) ==
    IF IsUpper(c)
    THEN LowerChars[CHOOSE i \in DOMAIN UpperChars : UpperChars[i] = c]
    ELSE c

\* str.upper() on one character
UpperChar(c) ==
    IF IsLower(c)
    THEN UpperChars[CHOOSE i \in DOMAIN LowerChars : LowerChars[i] = c]
    ELSE c

(* ------------------------------ text ---------------------------------- *)

RECURSIVE LStrip(_)
LStrip(s) == IF s # <<>> /\ IsSpace(Head(s)) THEN LStrip(Tail(s)) ELSE s

RECURSIVE RStrip(_)
RStrip(s) ==
    IF s # <<>> /\ IsSpace(s[Len(s)])
    THEN RStrip(SubSeq(s, 1, Len(s) - 1))
    ELSE s

\* str.strip(): leading and trailing whitespace removed
Strip(s) == RStrip(LStrip(s))

\* str.lower()
Lower(s) == AsTuple([i \in 1..Len(s) |-> LowerChar(s[i])])

\* str.replace(" ", "_")
ReplaceSpaces(s) ==
    AsTuple([i \in 1..Len(s) |-> IF s[i] = " " THEN "_" ELSE s[i]])

\* str.title(): a cased character is upper-cased when the character before
\* it is not cased (or there is none) and lower-cased otherwise
Title(s) ==
    AsTuple([i \in 1..Len(s) |->
        IF i > 1 /\ IsCased(s[i - 1]) THEN LowerChar(s[i]) ELSE UpperChar(s[i])])

\* the decimal digits of a natural number
RECURSIVE NatToText(_)
NatToText(n) ==
    IF n < 10 THEN <<DigitChars[n + 1]>>
    ELSE NatToText(n \div 10) \o <<DigitChars[(n % 10) + 1]>>

\* the value of a non-empty sequence of digits
RECURSIVE DigitsVal(_)
DigitsVal(s) ==
    IF s = <<>> THEN 0
    ELSE 10 * DigitsVal(SubSeq(s, 1, Len(s) - 1)) + DigitVal(s[Len(s)])

AllDigits(s) == s # <<>> /\ \A i \in 1..Len(s) : IsDigit(s[i])

\* n written with at least w digits
ZeroPad(n, w) ==
    LET t == NatToText(n)
    IN  IF Len(t) >= w THEN t ELSE AsTuple([i \in 1..(w - Len(t)) |-> "0"]) \o t

(* ------------------------------ cells --------------------------------- *)

\* units per 1 of the fixed-point numbers (39.1031 is 391031)
Scale == 10000

\* a missing value: None, NaN, NaT and pd.NA alike (isna() is true of each)
NA == [t |-> "na"]

Text(s) == [t |-> "str", s |-> s]

Num(v) == [t |-> "num", v |-> v]

Date(y, m, d) == [t |-> "date", y |-> y, m |-> m, d |-> d]

IsNA(c) == c.t = "na"

IsText(c) == c.t = "str"

IsNum(c) == c.t = "num"

IsDate(c) == c.t = "date"

(* ------------------------------ dates --------------------------------- *)

IsLeap(y) == (y % 4 = 0 /\ y % 100 # 0) \/ y % 400 = 0

DaysIn(y, m) ==
    IF m = 2 THEN (IF IsLeap(y) THEN 29 ELSE 28)
    ELSE IF m \in {4, 6, 9, 11} THEN 30 ELSE 31

\* The date texts of the model are year-first numeric dates, YYYY-MM-DD or
\* YYYY/MM/DD.  DateShape: the text has that shape with separator sep.
DateShape(s, sep) ==
    /\ Len(s) = 10
    /\ s[5] = sep /\ s[8] = sep
    /\ AllDigits(SubSeq(s, 1, 4))
    /\ AllDigits(SubSeq(s, 6, 7))
    /\ AllDigits(SubSeq(s, 9, 10))
    /\ DigitsVal(SubSeq(s, 6, 7)) \in 1..12
    /\ DigitsVal(SubSeq(s, 9, 10)) \in
          1..DaysIn(DigitsVal(SubSeq(s, 1, 4)), DigitsVal(SubSeq(s, 6, 7)))

DateOfText(s) ==
    Date(DigitsVal(SubSeq(s, 1, 4)), DigitsVal(SubSeq(s, 6, 7)),
         DigitsVal(SubSeq(s, 9, 10)))

\* the format pandas guesses from one text: its separator, "" when the
\* text is no date (guess_datetime_format returns None)
GuessFormat(s) ==
    IF DateShape(s, "-") THEN "-" ELSE IF DateShape(s, "/") THEN "/" ELSE ""

\* one element parsed on its own (the dateutil fallback), errors="coerce"
ParseDateAlone(c) ==
    IF IsDate(c) THEN c
    ELSE IF IsNum(c) THEN Date(1970, 1, 1)   \* a count of ns since the epoch
    ELSE IF IsText(c) /\ GuessFormat(c.s) # "" THEN DateOfText(c.s)
    ELSE NA

\* one element parsed against the format fmt, errors="coerce"
ParseDateWithFormat(c, fmt) ==
    IF IsText(c)
    THEN (IF DateShape(c.s, fmt) THEN DateOfText(c.s) ELSE NA)
    ELSE ParseDateAlone(c)

\* pd.to_datetime(column, errors="coerce"): the format is guessed from the
\* first non-null element and every text must then match it; when no
\* format can be guessed every element is parsed on its own.
ToDatetime(col) ==
    LET nonNull == {i \in 1..Len(col) : ~IsNA(col[i])}
        first == IF nonNull = {} THEN 0
                 ELSE CHOOSE i \in nonNull : \A j \in nonNull : i <= j
        fmt == IF first # 0 /\ IsText(col[first])
               THEN GuessFormat(col[first].s) ELSE ""
    IN  AsTuple([i \in 1..Len(col) |->
            IF fmt # "" THEN ParseDateWithFormat(col[i], fmt)
            ELSE ParseDateAlone(col[i])])

\* YYYY-MM-DD
FormatDate(c) ==
    ZeroPad(c.y, 4) \o <<"-">> \o ZeroPad(c.m, 2) \o <<"-">> \o ZeroPad(c.d, 2)

(* ----------------------------- numbers -------------------------------- *)

Pow10(k) == IF k = 0 THEN 1 ELSE IF k = 1 THEN 10 ELSE IF k = 2 THEN 100
            ELSE IF k = 3 THEN 1000 ELSE 10000

DotAt(s) == IF \E i \in 1..Len(s) : s[i] = "."
            THEN CHOOSE i \in 1..Len(s) : s[i] = "." /\ \A j \in 1..(i - 1) : s[j] # "."
            ELSE 0

\* The numeric texts of the model: digits, or digits "." one to four digits.
UnsignedShape(s) ==
    IF DotAt(s) = 0 THEN AllDigits(s)
    ELSE /\ AllDigits(SubSeq(s, 1, DotAt(s) - 1))
         /\ AllDigits(SubSeq(s, DotAt(s) + 1, Len(s)))
         /\ Len(s) - DotAt(s) <= 4

UnsignedVal(s) ==
    IF DotAt(s) = 0 THEN DigitsVal(s) * Scale
    ELSE DigitsVal(SubSeq(s, 1, DotAt(s) - 1)) * Scale
         + DigitsVal(SubSeq(s, DotAt(s) + 1, Len(s))) * Pow10(4 - (Len(s) - DotAt(s)))

NumberShape(s) ==
    IF s # <<>> /\ Head(s) = "-" THEN UnsignedShape(Tail(s)) ELSE UnsignedShape(s)

NumberVal(s) ==
    IF Head(s) = "-" THEN 0 - UnsignedVal(Tail(s)) ELSE UnsignedVal(s)

\* whether a numeric text is an integer literal
IntegerShape(s) == NumberShape(s) /\ DotAt(s) = 0

\* one element of pd.to_numeric(column, errors="coerce")
ParseNumber(c) ==
    IF IsNum(c) THEN c
    ELSE IF IsText(c) /\ NumberShape(c.s) THEN Num(NumberVal(c.s))
    ELSE NA

Abs(v) == IF v < 0 THEN 0 - v ELSE v

RECURSIVE DropTrailingZeros(_)
DropTrailingZeros(s) ==
    IF Len(s) > 1 /\ s[Len(s)] = "0"
    THEN DropTrailingZeros(SubSeq(s, 1, Len(s) - 1))
    ELSE s

\* str() of a number of a column of dtype dt: 2 for int64, 2.0 or 39.1031
\* for float64
FormatNum(v, dt) ==
    (IF v < 0 THEN <<"-">> ELSE <<>>) \o NatToText(Abs(v) \div Scale)
    \o (IF dt = "int64" THEN <<>>
        ELSE <<".">> \o DropTrailingZeros(ZeroPad(Abs(v) % Scale, 4)))

(* ---------------------------- DataFrame ------------------------------- *)

NRows(df) == Len(df.rows)

NCols(df) == Len(df.columns)

\* df[name] as a sequence of cells, by position j of the column
Col(df, j) == AsTuple([i \in 1..NRows(df) |-> df.rows[i][j]])

\* df[name] = col: column j replaced, with its new dtype
SetCol(df, j, col, dt) ==
    [df EXCEPT !.dtypes[j] = dt,
               !.rows = AsTuple([i \in 1..NRows(df) |->
                                    [df.rows[i] EXCEPT ![j] = col[i]]])]

\* the position of the column called name; 0 when name is not in df.columns
ColIndex(df, name) ==
    IF \E j \in 1..NCols(df) : df.columns[j] = name
    THEN CHOOSE j \in 1..NCols(df) :
            df.columns[j] = name /\ \A k \in 1..(j - 1) : df.columns[k] # name
    ELSE 0

ObjectDtype(build) == IF build >= 3 THEN "str" ELSE "object"

DatetimeDtype(build) == IF build >= 3 THEN "datetime64[us]" ELSE "datetime64[ns]"

IsDatetimeDtype(dt) == dt \in {"datetime64[ns]", "datetime64[us]"}

IsNumericDtype(dt) == dt \in {"int64", "float64"}

\* the text str() gives for a missing value of a column of dtype dt
NAText(dt) ==
    IF IsDatetimeDtype(dt) THEN <<"N", "a", "T">> ELSE <<"n", "a", "n">>

(* ------------------------ clean_data, step by step -------------------- *)

CrashDateName == <<"c","r","a","s","h","_","d","a","t","e">>

CityName == <<"c","i","t","y">>

InjuriesName == <<"i","n","j","u","r","i","e","s">>

LatitudeName == <<"l","a","t","i","t","u","d","e">>

LongitudeName == <<"l","o","n","g","i","t","u","d","e">>

LatMin == -90

LatMax == 90

LonMin == -180

LonMax == 180

\* What clean_data works on: df is the object its local name df refers to,
\* arg the object the caller passed, and alias says whether they are one
\* object, so that a write in place to df shows in arg.
\* raised says that a statement raised, which ends clean_data.
\* CopyFrameShared: df keeps naming the caller's object (no copy is made).
CopyFrameShared(T) == [df |-> T, arg |-> T, alias |-> TRUE, raised |-> FALSE]

\* df = df.copy(): a new object, the caller's left alone
CopyFrame(T) == [df |-> T, arg |-> T, alias |-> FALSE, raised |-> FALSE]

\* a statement that writes to df in place
InPlace(f, newdf) ==
    [f EXCEPT !.df = newdf, !.arg = IF f.alias THEN newdf ELSE f.arg]

\* c.strip().lower().replace(" ", "_")
NormalizeName(c) == ReplaceSpaces(Lower(Strip(c)))

\* df.columns = [...]
RenameColumns(df) ==
    [df EXCEPT !.columns =
        AsTuple([j \in 1..NCols(df) |-> NormalizeName(df.columns[j])])]

\* if "crash_date" in df.columns: df["crash_date"] = pd.to_datetime(...)
ParseDates(df, build) ==
    LET j == ColIndex(df, CrashDateName)
    IN  IF j = 0 THEN df
        ELSE SetCol(df, j, ToDatetime(Col(df, j)),
                    IF IsDatetimeDtype(df.dtypes[j]) THEN df.dtypes[j]
                    ELSE IF IsNumericDtype(df.dtypes[j]) THEN "datetime64[ns]"
                    ELSE DatetimeDtype(build))

\* one element of Series.astype(str)
AsTypeStr(c, dt, build) ==
    IF IsText(c) THEN c
    ELSE IF IsNum(c) THEN Text(FormatNum(c.v, dt))
    ELSE IF IsDate(c) THEN Text(FormatDate(c))
    ELSE IF build >= 3 THEN NA
    ELSE Text(NAText(dt))

\* one element of .str.strip()
StrStrip(c) == IF IsText(c) THEN Text(Strip(c.s)) ELSE c

\* df.loc[df["city"] == "", "city"] = pd.NA, on one element
EmptyToNA(c) == IF IsText(c) /\ c.s = <<>> THEN NA ELSE c

\* one element of .str.title()
StrTitle(c) == IF IsText(c) THEN Text(Title(c.s)) ELSE c

\* if "city" in df.columns: astype(str), strip, "" to NA, title
CleanCity(df, build) ==
    LET j == ColIndex(df, CityName)
    IN  IF j = 0 THEN df
        ELSE SetCol(df, j,
                    AsTuple([i \in 1..NRows(df) |->
                        StrTitle(EmptyToNA(StrStrip(
                            AsTypeStr(df.rows[i][j], df.dtypes[j], build))))]),
                    ObjectDtype(build))

\* whether to_numeric reads the element as an integer
ReadsAsInteger(c) ==
    \/ IsText(c) /\ IntegerShape(c.s)
    \/ IsNum(c) /\ c.v % Scale = 0

\* if "injuries" in df.columns: df["injuries"] = pd.to_numeric(..., "coerce")
CoerceInjuries(df) ==
    LET j == ColIndex(df, InjuriesName)
        col == AsTuple([i \in 1..NRows(df) |-> ParseNumber(df.rows[i][j])])
    IN  IF j = 0 THEN df
        ELSE SetCol(df, j, col,
                    IF IsNumericDtype(df.dtypes[j]) THEN df.dtypes[j]
                    ELSE IF \A i \in 1..NRows(df) : ReadsAsInteger(df.rows[i][j])
                    THEN "int64" ELSE "float64")

\* the comparison with the bounds themselves counted as out of range
OutOfRangeInclusive(v, lo, hi) == v <= lo * Scale \/ v >= hi * Scale

\* (df[c] < lo) | (df[c] > hi) on one number
OutOfRange(v, lo, hi) == v < lo * Scale \/ v > hi * Scale

\* df[name] < lo raises TypeError when the column holds a value that does
\* not compare with a number (a text, a date)
CompareRaises(df, name) ==
    LET j == ColIndex(df, name)
    IN  j # 0 /\ \E i \in 1..NRows(df) : IsText(df.rows[i][j]) \/ IsDate(df.rows[i][j])

\* if name in df.columns: df.loc[(df[name] < lo) | (df[name] > hi), name] = pd.NA
RangeCheck(df, name, lo, hi) ==
    LET j == ColIndex(df, name)
        bad(c) == IsNum(c) /\ OutOfRange(c.v, lo, hi)
    IN  IF j = 0 THEN df
        ELSE SetCol(df, j,
                    AsTuple([i \in 1..NRows(df) |->
                        IF bad(df.rows[i][j]) THEN NA ELSE df.rows[i][j]]),
                    IF df.dtypes[j] = "int64" /\ \E i \in 1..NRows(df) : bad(df.rows[i][j])
                    THEN "float64" ELSE df.dtypes[j])

\* every row kept, repetitions included
KeepAllRows(rows) == rows

\* the rows that are not a repetition of an earlier row, in their order
RECURSIVE KeepFirst(_)
KeepFirst(rows) ==
    IF Len(rows) = 0 THEN <<>>
    ELSE LET n == Len(rows)
             before == KeepFirst(SubSeq(rows, 1, n - 1))
         IN  IF \E i \in 1..(n - 1) : rows[i] = rows[n]
             THEN before ELSE Append(before, rows[n])

\* df.drop_duplicates(): a new DataFrame
DropDuplicates(df) == [df EXCEPT !.rows = KeepFirst(df.rows)]

\* lines 67 to 70 for one coordinate column: the comparison raises, or
\* the values out of range are made missing in place
RangeStep(f, name, lo, hi) ==
    IF f.raised THEN f
    ELSE IF CompareRaises(f.df, name) THEN [f EXCEPT !.raised = TRUE]
    ELSE InPlace(f, RangeCheck(f.df, name, lo, hi))

\* line 50
RenameStep(f) == InPlace(f, RenameColumns(f.df))

\* lines 53 and 54
DatesStep(f, build) == InPlace(f, ParseDates(f.df, build))

\* lines 57 to 60
CityStep(f, build) == InPlace(f, CleanCity(f.df, build))

\* lines 63 and 64
InjuriesStep(f) == InPlace(f, CoerceInjuries(f.df))

\* The statements of clean_data before drop_duplicates (lines 49 to 70),
\* in their order.
CleanSteps(T, build) ==
    RangeStep(
        RangeStep(
            InjuriesStep(CityStep(DatesStep(RenameStep(CopyFrame(T)), build), build)),
            LatitudeName, LatMin, LatMax),
        LongitudeName, LonMin, LonMax)

\* clean_data(df): raised, or the DataFrame returned (df); arg is the
\* caller's DataFrame afterwards.
clean_data(T, build) ==
    LET f == CleanSteps(T, build)
    IN  IF f.raised THEN [raised |-> TRUE, arg |-> f.arg]
        ELSE [raised |-> FALSE, df |-> DropDuplicates(f.df), arg |-> f.arg]

(* ------------------------------ load_data ----------------------------- *)

\* the fields pd.read_csv reads as missing (its default na_values)
NaStrings ==
    {<<>>,
     <<"#","N","/","A">>,
     <<"#","N","/","A"," ","N","/","A">>,
     <<"#","N","A">>,
     <<"-","1",".","#","I","N","D">>,
     <<"-","1",".","#","Q","N","A","N">>,
     <<"-","N","a","N">>,
     <<"-","n","a","n">>,
     <<"1",".","#","I","N","D">>,
     <<"1",".","#","Q","N","A","N">>,
     <<"<","N","A",">">>,
     <<"N","/","A">>,
     <<"N","A">>,
     <<"N","U","L","L">>,
     <<"N","a","N">>,
     <<"N","o","n","e">>,
     <<"n","/","a">>,
     <<"n","a","n">>,
     <<"n","u","l","l">>}

\* One column of pd.read_csv: a field of NaStrings is missing; the column
\* is numeric when every other field is a number (int64 when all are
\* integers and none is missing, float64 otherwise), else it holds the
\* fields as text.
ReadCsvColumn(fields, build) ==
    LET n == Len(fields)
        missing(i) == fields[i] \in NaStrings
        numeric == \A i \in 1..n : missing(i) \/ NumberShape(fields[i])
    IN  IF numeric
        THEN [dtype |-> IF \A i \in 1..n : ~missing(i) /\ IntegerShape(fields[i])
                        THEN "int64" ELSE "float64",
              cells |-> AsTuple([i \in 1..n |->
                            IF missing(i) THEN NA ELSE Num(NumberVal(fields[i]))])]
        ELSE [dtype |-> ObjectDtype(build),
              cells |-> AsTuple([i \in 1..n |->
                            IF missing(i) THEN NA ELSE Text(fields[i])])]

\* pd.read_csv(RAW_FILE) of a file with a header row and records of fields
ReadCsv(content, build) ==
    LET nc == Len(content.header)
        nr == Len(content.records)
        cols == AsTuple([j \in 1..nc |->
                    ReadCsvColumn(AsTuple([i \in 1..nr |-> content.records[i][j]]),
                                  build)])
    IN  [columns |-> content.header,
         dtypes |-> AsTuple([j \in 1..nc |-> cols[j].dtype]),
         rows |-> AsTuple([i \in 1..nr |-> AsTuple([j \in 1..nc |-> cols[j].cells[i]])])]

\* the example dataset of lines 34 to 42
SampleData(build) ==
    [columns |-> <<<<"C","r","a","s","h"," ","D","a","t","e">>,
                   <<"C","i","t","y">>,
                   <<"I","n","j","u","r","i","e","s">>,
                   <<"L","a","t","i","t","u","d","e">>,
                   <<"L","o","n","g","i","t","u","d","e">>>>,
     dtypes |-> <<ObjectDtype(build), ObjectDtype(build), ObjectDtype(build),
                  "float64", "float64">>,
     rows |-> <<
        <<Text(<<"2","0","2","6","-","0","5","-","0","1">>), Text(<<"C","i","n","c","i","n","n","a","t","i">>),
          Text(<<"2">>), Num(391031), Num(-845120)>>,
        <<Text(<<"2","0","2","6","/","0","5","/","0","2">>), Text(<<"C","I","N","C","I","N","N","A","T","I"," ">>),
          Text(<<"0">>), Num(391032), Num(-845121)>>,
        <<NA, Text(<<"C","o","v","i","n","g","t","o","n">>),
          Text(<<"u","n","k","n","o","w","n">>), NA, Num(-845200)>>,
        <<Text(<<"2","0","2","6","-","0","5","-","0","4">>), Text(<<>>),
          Text(<<"1">>), Num(390500), NA>> >>]

\* a load that uses the example dataset when the file cannot be parsed
LoadDataFallsBack(file, build) ==
    IF file.exists /\ file.parsable
    THEN [raised |-> FALSE, df |-> ReadCsv(file.content, build)]
    ELSE [raised |-> FALSE, df |-> SampleData(build)]

\* load_data(): read_csv raises when the file exists and is no table
load_data(file, build) ==
    IF file.exists
    THEN (IF file.parsable
          THEN [raised |-> FALSE, df |-> ReadCsv(file.content, build)]
          ELSE [raised |-> TRUE])
    ELSE [raised |-> FALSE, df |-> SampleData(build)]

(* ------------------------- the two output files ----------------------- *)

\* one field of DataFrame.to_csv: a missing value is the empty field
CsvField(c, dt) ==
    IF IsNA(c) THEN <<>>
    ELSE IF IsText(c) THEN c.s
    ELSE IF IsNum(c) THEN FormatNum(c.v, dt)
    ELSE FormatDate(c)

\* df.to_csv(CLEAN_FILE, index=False): the header, then one record per row
to_csv(df) ==
    <<df.columns>> \o
    AsTuple([i \in 1..NRows(df) |->
        AsTuple([j \in 1..NCols(df) |-> CsvField(df.rows[i][j], df.dtypes[j])])])

\* the number of cells that are not missing
RECURSIVE CountPresent(_)
CountPresent(col) ==
    IF col = <<>> THEN 0
    ELSE (IF IsNA(Head(col)) THEN 0 ELSE 1) + CountPresent(Tail(col))

\* int(df[col].isna().sum())
RECURSIVE IsnaSum(_)
IsnaSum(col) ==
    IF col = <<>> THEN 0
    ELSE (IF IsNA(Head(col)) THEN 1 ELSE 0) + IsnaSum(Tail(col))

\* the four lines before the column entries (the backquotes around
\* raw_data.csv are written as quotes here)
DictionaryPreamble ==
    << <<"# Data Dictionary / Methodology\n">>,
       <<"**Source:** Public sample or local 'raw_data.csv' (if provided)\n">>,
       <<"**Cleaning steps:** standardized column names, parsed dates, trimmed text, coerced numeric fields, basic lat/lon validation, removed duplicates.\n">>,
       <<"\n## Columns\n">> >>

\* f"- **{col}** ({dtype}) -- missing: {missing}\n", as its parts
DictionaryEntry(df, j) ==
    <<"- **", df.columns[j], "** (", df.dtypes[j], ") -- missing: ",
      NatToText(IsnaSum(Col(df, j))), "\n">>

\* the lines write_data_dictionary writes to DOC_FILE
write_data_dictionary(df) ==
    DictionaryPreamble \o AsTuple([j \in 1..NCols(df) |-> DictionaryEntry(df, j)])

NotWritten == [written |-> FALSE]

Written(lines) == [written |-> TRUE, lines |-> lines]

None == [t |-> "None"]

(* --------------------- the raw_data.csv files read -------------------- *)

\* A raw_data.csv of the model has the columns of the example dataset, or
\* two of them, and one to MaxRows records of RecordPool.  The latitude and
\* longitude of BaseRecord lie on the bounds of the valid ranges.
CsvHeader ==
    <<<<"C","r","a","s","h"," ","D","a","t","e">>, <<" ","C","i","t","y">>,
      <<"I","n","j","u","r","i","e","s">>, <<"l","a","t","i","t","u","d","e">>,
      <<"L","O","N","G","I","T","U","D","E"," ">>>>

ShortHeader == <<<<"c","i","t","y">>, <<"L","a","t","i","t","u","d","e">>>>

BaseRecord ==
    <<<<"2","0","2","6","-","0","5","-","0","1">>, <<"A","b">>, <<"2">>,
      <<"9","0",".","0">>, <<"-","1","8","0",".","0">>>>

RecordPool ==
    { BaseRecord,
      \* the same city, untrimmed and in lower case
      [BaseRecord EXCEPT ![2] = <<"a","b"," ">>],
      \* a slash date, no city, text for injuries, a longitude below -180
      <<<<"2","0","2","6","/","0","5","/","0","2">>, <<>>, <<"u","n","k","n","o","w","n">>,
        <<"9","0",".","0">>, <<"-","1","8","0",".","0","0","0","1">>>>,
      \* no date, a city of spaces, another count
      <<<<"u","n","k","n","o","w","n">>, <<" ">>, <<"0">>,
        <<"9","0",".","0">>, <<"-","1","8","0",".","0">>>>,
      \* a latitude above 90
      [BaseRecord EXCEPT ![4] = <<"9","0",".","0","0","0","1">>],
      \* no latitude
      [BaseRecord EXCEPT ![4] = <<>>],
      \* text for latitude
      [BaseRecord EXCEPT ![4] = <<"a","b","c">>] }

RecordLists == UNION {[1..n -> RecordPool] : n \in 1..MaxRows}

CsvContents ==
    {[header |-> CsvHeader, records |-> r] : r \in RecordLists}
    \cup {[header |-> ShortHeader,
           records |-> [i \in 1..Len(r) |-> <<r[i][2], r[i][4]>>]] : r \in RecordLists}

NoFile == [exists |-> FALSE]

BrokenFile == [exists |-> TRUE, parsable |-> FALSE]

RawFiles ==
    {NoFile, BrokenFile}
    \cup {[exists |-> TRUE, parsable |-> TRUE, content |-> c] : c \in CsvContents}

(* -------------------------------- main -------------------------------- *)

Init ==
    /\ pandas_major \in PandasBuilds
    /\ raw_file \in RawFiles
    /\ pc = "start"
    /\ error = "none"
    /\ df_raw = None
    /\ df_clean = None
    /\ clean_file = NotWritten
    /\ doc_file = NotWritten
    /\ stdout = <<>>

\* line 96: df_raw = load_data()
LoadData ==
    /\ pc = "start"
    /\ LET r == load_data(raw_file, pandas_major)
       IN  IF r.raised
           THEN pc' = "failed" /\ error' = "ParserError" /\ df_raw' = df_raw
           ELSE pc' = "loaded" /\ error' = error /\ df_raw' = r.df
    /\ UNCHANGED <<pandas_major, raw_file, df_clean, clean_file, doc_file, stdout>>

\* line 97: df_clean = clean_data(df_raw)
Clean ==
    /\ pc = "loaded"
    /\ LET r == clean_data(df_raw, pandas_major)
       IN  /\ df_raw' = r.arg
           /\ IF r.raised
              THEN pc' = "failed" /\ error' = "TypeError" /\ df_clean' = df_clean
              ELSE pc' = "cleaned" /\ error' = error /\ df_clean' = r.df
    /\ UNCHANGED <<pandas_major, raw_file, clean_file, doc_file, stdout>>

\* line 100: df_clean.to_csv(CLEAN_FILE, index=False)
SaveCsv ==
    /\ pc = "cleaned"
    /\ clean_file' = Written(to_csv(df_clean))
    /\ pc' = "saved"
    /\ UNCHANGED <<pandas_major, raw_file, error, df_raw, df_clean, doc_file, stdout>>

\* line 100, when CLEAN_FILE cannot be opened for writing
SaveCsvFails ==
    /\ pc = "cleaned"
    /\ pc' = "failed"
    /\ error' = "OSError"
    /\ UNCHANGED <<pandas_major, raw_file, df_raw, df_clean, clean_file, doc_file, stdout>>

\* line 101: write_data_dictionary(df_clean)
WriteDictionary ==
    /\ pc = "saved"
    /\ doc_file' = Written(write_data_dictionary(df_clean))
    /\ pc' = "documented"
    /\ UNCHANGED <<pandas_major, raw_file, error, df_raw, df_clean, clean_file, stdout>>

\* line 101, when open(DOC_FILE, "w") raises
WriteDictionaryFails ==
    /\ pc = "saved"
    /\ pc' = "failed"
    /\ error' = "OSError"
    /\ UNCHANGED <<pandas_major, raw_file, df_raw, df_clean, clean_file, doc_file, stdout>>

\* lines 103 to 106
Report ==
    /\ pc = "documented"
    /\ stdout' = << <<"Done.">>,
                    <<"Rows (raw):   ", NatToText(NRows(df_raw))>>,
                    <<"Rows (clean): ", NatToText(NRows(df_clean))>>,
                    <<"Saved: ", "cleaned_data.csv", " and ", "data_dictionary.md">> >>
    /\ pc' = "done"
    /\ UNCHANGED <<pandas_major, raw_file, error, df_raw, df_clean, clean_file, doc_file>>

Next ==
    \/ LoadData
    \/ Clean
    \/ SaveCsv
    \/ SaveCsvFails
    \/ WriteDictionary
    \/ WriteDictionaryFails
    \/ Report

Spec == Init /\ [][Next]_vars

(* ------------------------------ properties ---------------------------- *)

\* the DataFrame load_data returned in this run
Loaded == load_data(raw_file, pandas_major).df

\* the DataFrame of clean_data just before drop_duplicates (after line 70)
Normalized == CleanSteps(df_raw, pandas_major).df

RowSet(df) == {df.rows[i] : i \in 1..NRows(df)}

\* s is title-cased: a cased character is upper case exactly when no cased
\* character stands before it
IsTitleCased(s) ==
    \A i \in 1..Len(s) :
        IF i > 1 /\ IsCased(s[i - 1]) THEN ~IsUpper(s[i]) ELSE ~IsLower(s[i])

IsTrimmed(s) == s = <<>> \/ (~IsSpace(s[1]) /\ ~IsSpace(s[Len(s)]))

\* C1: clean_data is idempotent: cleaning the cleaned DataFrame again
\* returns the same DataFrame, cell for cell; no row is removed, no value
\* changes, and an absent cell stays absent.
C1_Idempotent ==
    df_clean # None =>
        LET again == clean_data(df_clean, pandas_major)
        IN  ~again.raised /\ again.df = df_clean

\* C2: clean_data never ends in an error because of a malformed cell value,
\* whatever the cells of crash_date, city, injuries, latitude and longitude
\* hold (text in latitude or longitude included).
C2_NeverRaises == error # "TypeError"

\* C3: in the output of clean_data every city cell is absent or a non-empty,
\* trimmed, title-cased text; a city cell that is absent in the input, or
\* empty after trimming, is absent after cleaning.
C3_CityCells ==
    (df_clean # None /\ ColIndex(df_clean, CityName) # 0) =>
        LET j == ColIndex(df_clean, CityName)
            L == df_raw
            N == Normalized
        IN  /\ \A i \in 1..NRows(df_clean) :
                  LET c == df_clean.rows[i][j]
                  IN  \/ IsNA(c)
                      \/ IsText(c) /\ c.s # <<>> /\ IsTrimmed(c.s) /\ IsTitleCased(c.s)
            /\ \A i \in 1..NRows(L) :
                  LET c == L.rows[i][j]
                  IN  (IsNA(c) \/ (IsText(c) /\ Strip(c.s) = <<>>))
                          => IsNA(N.rows[i][j])

\* C4: no two rows of the output of clean_data are identical; the output is
\* the rows as they are after every normalization step, each kept at its
\* first occurrence only and in the original order.
C4_NoDuplicates ==
    df_clean # None =>
        LET N == AsTuple(Normalized.rows)
            out == df_clean.rows
            firsts == {i \in 1..Len(N) : \A k \in 1..(i - 1) : N[k] # N[i]}
            nth(a) == CHOOSE i \in firsts : Cardinality({k \in firsts : k <= i}) = a
        IN  /\ \A a, b \in 1..Len(out) : a # b => out[a] # out[b]
            /\ Len(out) = Cardinality(firsts)
            /\ \A a \in 1..Len(out) : out[a] = N[nth(a)]

\* C4 witness: three raw rows, all different, of which the second becomes
\* identical to the first only through cleaning and is removed, the third
\* staying behind the first.
C4_Witness ==
    /\ df_clean # None
    /\ NRows(df_clean) = 2
    /\ NRows(df_raw) = 3
    /\ Cardinality(RowSet(df_raw)) = 3
    /\ LET N == Normalized
       IN  N.rows[1] = N.rows[2] /\ df_clean.rows[2] = N.rows[3]

InRange(c, lo, hi) == IsNum(c) /\ lo * Scale <= c.v /\ c.v <= hi * Scale

\* the range rule of one coordinate column, of bounds lo and hi
CoordinateRule(name, lo, hi) ==
    LET j == ColIndex(df_clean, name)
        L == df_raw
        N == Normalized
        kept == RowSet(df_clean)
    IN  j # 0 =>
          /\ \A i \in 1..NRows(df_clean) :
                IsNA(df_clean.rows[i][j]) \/ InRange(df_clean.rows[i][j], lo, hi)
          /\ \A i \in 1..NRows(L) :
                LET c == L.rows[i][j]
                    row == N.rows[i]
                IN  /\ row \in kept
                    /\ InRange(c, lo, hi) => row[j] = c
                    /\ (IsNum(c) /\ ~InRange(c, lo, hi)) => IsNA(row[j])

\* C5: in the output of clean_data latitude is absent or within [-90, 90]
\* and longitude absent or within [-180, 180]; a value in range (the bounds
\* included) is unchanged, a value out of range is absent, and its row is
\* still in the output.
C5_Coordinates ==
    df_clean # None =>
        /\ CoordinateRule(LatitudeName, -90, 90)
        /\ CoordinateRule(LongitudeName, -180, 180)

\* C5 witness: a cleaned table read from a file with a latitude on the bound
\* and one beyond it, and a longitude beyond its bound.
C5_Witness ==
    /\ df_clean # None
    /\ raw_file.exists
    /\ ColIndex(df_clean, LongitudeName) # 0
    /\ LET L == df_raw
       IN  /\ \E i \in 1..NRows(L) : L.rows[i][4] = Num(90 * Scale)
           /\ \E i \in 1..NRows(L) : L.rows[i][4] = Num(90 * Scale + 1)
           /\ \E i \in 1..NRows(L) : L.rows[i][5] = Num(0 - 180 * Scale - 1)

\* C6: when a run of main has ended, normally or by a failure at any step,
\* either both output files were written, from the cleaned table, or
\* neither was.
C6_BothOrNeither ==
    pc \in {"done", "failed"} =>
        /\ clean_file.written <=> doc_file.written
        /\ clean_file.written => clean_file.lines = to_csv(df_clean)
        /\ doc_file.written => doc_file.lines = write_data_dictionary(df_clean)

\* C7: when raw_data.csv exists and cannot be parsed, the run aborts in
\* load_data: no DataFrame is loaded (the sample is not used instead) and
\* neither output file is written; a file is written only after load and
\* clean succeeded.
C7_BrokenInputAborts ==
    /\ (raw_file.exists /\ ~raw_file.parsable) =>
          /\ pc \in {"start", "failed"}
          /\ pc = "failed" => error = "ParserError"
          /\ df_raw = None /\ df_clean = None
          /\ ~clean_file.written /\ ~doc_file.written
    /\ (clean_file.written \/ doc_file.written) => (df_raw # None /\ df_clean # None)

\* C7 witness: the run has ended on the unparsable file.
C7_Witness == raw_file = BrokenFile /\ pc = "failed"

MissingRows(df, j) == {i \in 1..NRows(df) : IsNA(df.rows[i][j])}

\* C8: on the built-in sample clean_data returns 4 rows; each of the five
\* columns has exactly one absent value, crash_date in row 3 only (row 2's
\* slash date is parsed), city in row 4 only (row 2's city is Cincinnati),
\* injuries in row 3 only; the dictionary lists the five columns in this
\* order with missing 1 each.
C8_SampleResult ==
    (~raw_file.exists /\ pc = "done") =>
        /\ NRows(df_clean) = 4
        /\ df_clean.columns =
              <<CrashDateName, CityName, InjuriesName, LatitudeName, LongitudeName>>
        /\ \A j \in 1..5 : Cardinality(MissingRows(df_clean, j)) = 1
        /\ MissingRows(df_clean, 1) = {3}
        /\ df_clean.rows[2][1] = Date(2026, 5, 2)
        /\ MissingRows(df_clean, 2) = {4}
        /\ df_clean.rows[2][2] = Text(<<"C","i","n","c","i","n","n","a","t","i">>)
        /\ MissingRows(df_clean, 3) = {3}
        /\ Len(doc_file.lines) = 4 + 5
        /\ \A j \in 1..5 :
              /\ doc_file.lines[4 + j][2] = df_clean.columns[j]
              /\ doc_file.lines[4 + j][6] = <<"1">>

\* C9: write_data_dictionary writes one entry per column of its table, in
\* the column order, whose missing count is the number of absent cells of
\* the column, and leaves the table as it was when it was saved.
C9_Dictionary ==
    doc_file.written =>
        /\ Len(doc_file.lines) = 4 + NCols(df_clean)
        /\ \A j \in 1..NCols(df_clean) :
              /\ doc_file.lines[4 + j][2] = df_clean.columns[j]
              /\ doc_file.lines[4 + j][6] =
                    NatToText(Cardinality(MissingRows(df_clean, j)))
        /\ clean_file.lines = to_csv(df_clean)

\* C9 witness: a dictionary of a table with a column without absent cells
\* and a column with two of them.
C9_Witness ==
    /\ doc_file.written
    /\ \E j \in 1..NCols(df_clean) : MissingRows(df_clean, j) = {}
    /\ \E j \in 1..NCols(df_clean) : Cardinality(MissingRows(df_clean, j)) = 2

\* C10: clean_data does not change the DataFrame it is given: from the load
\* on, df_raw has the column names, rows and cells load_data returned, and
\* main reports the raw row count from it.
C10_InputUntouched ==
    /\ df_raw # None => df_raw = Loaded
    /\ pc = "done" => stdout[2][2] = NatToText(NRows(Loaded))

\* C10 witness: a finished run in which cleaning renamed the columns,
\* changed cells and removed a row.
C10_Witness ==
    /\ pc = "done"
    /\ df_clean.columns # df_raw.columns
    /\ NRows(df_clean) < NRows(df_raw)
    /\ LET N == Normalized
       IN  \E i \in 1..NRows(df_raw) : df_raw.rows[i] # N.rows[i]

====
